---------------------------- MODULE Spec2Model ----------------------------
(***************************************************************************)
(* A model of the squall router: the pattern compiler of src/src/path.rs   *)
(* (PathParser) and the three-tier route table and resolver of             *)
(* src/src/router.rs (SquallRouter).                                       *)
(*                                                                         *)
(* Strings are sequences of one-character strings, so that trimming,       *)
(* splitting, prefix tests and the character-level grammar of a pattern    *)
(* are computed, not assumed.  A trie (struct Database) is a function from *)
(* node addresses to handler lists, the address of a node being the        *)
(* sequence of child keys leading to it from the root.                     *)
(***************************************************************************)
EXTENDS Integers, Sequences, FiniteSets, TLC

(***************************************************************************)
(* Characters                                                              *)
(***************************************************************************)
Lower == {"a","b","c","d","e","f","g","h","i","j","k","l","m",
          "n","o","p","q","r","s","t","u","v","w","x","y","z"}
Upper == {"A","B","C","D","E","F","G","H","I","J","K","L","M",
          "N","O","P","Q","R","S","T","U","V","W","X","Y","Z"}
Letters == Lower \cup Upper
Digits == {"0","1","2","3","4","5","6","7","8","9"}

\* The character class of is_valid: [/a-zA-Z0-9_:{}%\-~!&'*+,;=@]
ValidChars ==
    Letters \cup Digits \cup
    {"/", "_", ":", "{", "}", "%", "-", "~", "!", "&", "'", "*", "+", ",", ";", "=", "@"}

(***************************************************************************)
(* String primitives of the standard library, as the code uses them        *)
(***************************************************************************)
\* str::trim_end_matches(c): every trailing repetition of c is removed
RECURSIVE trim_end_matches(_, _)
trim_end_matches(s, c) ==
    IF s # <<>> /\ s[Len(s)] = c
    THEN trim_end_matches(SubSeq(s, 1, Len(s) - 1), c)
    ELSE s

\* str::trim_start_matches(c): every leading repetition of c is removed
RECURSIVE trim_start_matches(_, _)
trim_start_matches(s, c) ==
    IF s # <<>> /\ s[1] = c
    THEN trim_start_matches(Tail(s), c)
    ELSE s

\* The position of the first c in s, 0 when there is none
FirstIndex(s, c) ==
    IF \E i \in 1..Len(s) : s[i] = c
    THEN CHOOSE i \in 1..Len(s) : s[i] = c /\ \A j \in 1..(i - 1) : s[j] # c
    ELSE 0

\* str::split(c): the pieces between separators, empty pieces included
RECURSIVE split(_, _)
split(s, c) ==
    LET i == FirstIndex(s, c)
    IN  IF i = 0
        THEN <<s>>
        ELSE <<SubSeq(s, 1, i - 1)>> \o split(SubSeq(s, i + 1, Len(s)), c)

\* bytecount::count
count(s, c) == Cardinality({i \in 1..Len(s) : s[i] = c})

\* str::starts_with
starts_with(s, p) == Len(p) <= Len(s) /\ SubSeq(s, 1, Len(p)) = p

\* str::ends_with, for a one-character suffix
ends_with(s, c) == s # <<>> /\ s[Len(s)] = c

\* str::contains, for a one-character needle
contains(s, c) == \E i \in 1..Len(s) : s[i] = c

\* Ord for str: byte-wise lexicographic order; the model's characters are
\* ordered by their ASCII codes
Code(ch) ==
    CASE ch = "*" -> 42
      [] ch = "/" -> 47
      [] ch = ":" -> 58
      [] ch = "^" -> 94
      [] ch = "a" -> 97
      [] ch = "b" -> 98
      [] ch = "i" -> 105
      [] ch = "r" -> 114
      [] ch = "s" -> 115
      [] ch = "t" -> 116
      [] ch = "x" -> 120
      [] ch = "y" -> 121
      [] ch = "{" -> 123
      [] ch = "}" -> 125

RECURSIVE str_less(_, _)
str_less(s, t) ==
    IF t = <<>> THEN FALSE
    ELSE IF s = <<>> THEN TRUE
    ELSE IF s[1] # t[1] THEN Code(s[1]) < Code(t[1])
    ELSE str_less(Tail(s), Tail(t))

(***************************************************************************)
(* The regex engine, a black box to the router: compile and is_match.      *)
(* Three pattern sources stand for the caller's regexes.                   *)
(***************************************************************************)
RE_AllA == "^a+$"       \* anchored: one or more a
RE_HasB == "b"          \* unanchored: matches any text containing b
RE_Bad  == "("          \* does not compile

Regexes == {RE_AllA, RE_HasB, RE_Bad}

\* Regex::new(..).is_ok()
regex_compiles(re) == re \in {RE_AllA, RE_HasB}

\* Regex::is_match
is_match(re, value) ==
    CASE re = RE_AllA -> value # <<>> /\ \A i \in 1..Len(value) : value[i] = "a"
      [] re = RE_HasB -> \E i \in 1..Len(value) : value[i] = "b"


(***************************************************************************)
(* PathParser (src/src/path.rs)                                            *)
(***************************************************************************)
NoValidator == "None"                   \* Option<Regex>::None
STR_ALIAS == <<"s", "t", "r">>          \* the alias "str"
STAR == <<"*">>                         \* the octet "*"

\* The absent map (HashMap::new, FxHashMap::default)
EmptyMap == [k \in {} |-> <<>>]

\* HashMap::insert
map_insert(m, key, value) ==
    [k \in (DOMAIN m) \cup {key} |-> IF k = key THEN value ELSE m[k]]

\* PathParser::is_valid: ^[/a-zA-Z0-9_:{}%\-~!&'*+,;=@]+$
is_valid(path) ==
    path # <<>> /\ \A i \in 1..Len(path) : path[i] \in ValidChars

\* PathParser::normalized
normalized(path) ==
    trim_end_matches(
        trim_end_matches(
            trim_start_matches(trim_start_matches(path, "^"), "/"),
            "$"),
        "/")

\* Regex \{([^}]*)\} .replace_all(s, "*"): leftmost, non-overlapping; a match
\* runs from a "{" to the first "}" after it, whatever lies between
RECURSIVE replace_all(_)
replace_all(s) ==
    IF s = <<>> THEN <<>>
    ELSE IF s[1] = "{" /\ FirstIndex(Tail(s), "}") # 0
    THEN STAR \o replace_all(SubSeq(s, FirstIndex(Tail(s), "}") + 2, Len(s)))
    ELSE <<s[1]>> \o replace_all(Tail(s))

\* The loop of get_octets over the pieces: empty pieces are dropped
RECURSIVE octets_of(_)
octets_of(pieces) ==
    IF pieces = <<>> THEN <<>>
    ELSE IF Len(pieces[1]) = 0 THEN octets_of(Tail(pieces))
    ELSE <<pieces[1]>> \o octets_of(Tail(pieces))

\* The octets the loop of get_octets pushes to `errors`: "*" with more around it
errors_of(pieces) ==
    {i \in 1..Len(pieces) :
        Len(pieces[i]) # 0 /\ pieces[i] # STAR /\ contains(pieces[i], "*")}

\* PathParser::get_octets: Ok(octets) or Err("Invalid path") when an octet is
\* only partly dynamic
get_octets(path) ==
    LET pieces == split(replace_all(path), "/")
    IN  IF errors_of(pieces) = {}
        THEN [ok |-> TRUE, octets |-> octets_of(pieces)]
        ELSE [ok |-> FALSE, err |-> "Invalid path"]

\* [a-zA-Z_][a-zA-Z0-9_]*
is_ident(w) ==
    /\ w # <<>>
    /\ w[1] \in Letters \cup {"_"}
    /\ \A i \in 2..Len(w) : w[i] \in Letters \cup Digits \cup {"_"}

\* The groups of param_pattern, given what stands between the braces split
\* at ":": the name, and the alias when there is one
capture_groups(parts) ==
    IF Len(parts) = 1 /\ is_ident(parts[1])
    THEN [matched |-> TRUE, name |-> parts[1], has_alias |-> FALSE]
    ELSE IF Len(parts) = 2 /\ is_ident(parts[1]) /\ is_ident(parts[2])
    THEN [matched |-> TRUE, name |-> parts[1], has_alias |-> TRUE,
          alias |-> parts[2]]
    ELSE [matched |-> FALSE]

\* param_pattern.captures(octet) with
\* ^\{([a-zA-Z_][a-zA-Z0-9_]*)(:[a-zA-Z_][a-zA-Z0-9_]*)?\}$
param_captures(octet) ==
    IF Len(octet) >= 3 /\ octet[1] = "{" /\ octet[Len(octet)] = "}"
    THEN capture_groups(split(SubSeq(octet, 2, Len(octet) - 1), ":"))
    ELSE [matched |-> FALSE]

\* The loop of get_params from piece i on (index = i - 1, as enumerate counts
\* every piece of the split, empty ones included); names and matched are the
\* vectors built so far
RECURSIVE params_from(_, _, _, _, _)

\* One turn of the loop, at piece i with the captures `cap` of that piece
param_at(registry, pieces, i, names, matched, cap) ==
    IF ~cap.matched
    THEN params_from(registry, pieces, i + 1, names, matched)
    ELSE IF ~cap.has_alias \/ cap.alias = STR_ALIAS
    THEN params_from(registry, pieces, i + 1,
                     Append(names, cap.name),
                     Append(matched, [index |-> i - 1, validator |-> NoValidator]))
    ELSE IF cap.alias \in DOMAIN registry
    THEN params_from(registry, pieces, i + 1,
                     Append(names, cap.name),
                     Append(matched, [index |-> i - 1,
                                      validator |-> registry[cap.alias]]))
    ELSE [ok |-> FALSE, err |-> "Unknown validator"]

params_from(registry, pieces, i, names, matched) ==
    IF i > Len(pieces) THEN [ok |-> TRUE, names |-> names, values |-> matched]
    ELSE param_at(registry, pieces, i, names, matched, param_captures(pieces[i]))

\* PathParser::get_params
get_params(registry, path) ==
    params_from(registry, split(path, "/"), 1, <<>>, <<>>)

\* The result of parse, given those of get_octets and get_params: the error
\* of the first that failed, else the Path
parsed_path(path, octs, pars) ==
    IF ~octs.ok THEN [ok |-> FALSE, err |-> octs.err]
    ELSE IF ~pars.ok THEN [ok |-> FALSE, err |-> pars.err]
    ELSE [ok |-> TRUE,
          origin |-> path,
          octets |-> octs.octets,
          params_names |-> pars.names,
          params_values |-> pars.values,
          params_len |-> Len(pars.names)]

\* PathParser::parse, against the validator registry `registry`
parse(registry, path) ==
    IF is_valid(path)
    THEN parsed_path(path, get_octets(normalized(path)),
                     get_params(registry, normalized(path)))
    ELSE [ok |-> FALSE, err |-> "Path processing error"]

\* PathParser::add_validator: the registry after the call, and its result
add_validator(registry, alias, regex) ==
    IF regex_compiles(regex)
    THEN [ok |-> TRUE, validators |-> map_insert(registry, alias, regex)]
    ELSE [ok |-> FALSE, validators |-> registry]

(***************************************************************************)
(* SquallRouter (src/src/router.rs): the state                             *)
(***************************************************************************)
VARIABLES
    dynamic_db,               \* Vec<Database>: dynamic_db[d + 1] is the trie of depth d
    dynamic_db_size,          \* usize
    static_db,                \* FxHashMap<String, Vec<Handler>>
    locations_db,             \* Vec<(String, Vec<Handler>)>
    validators,               \* path_parser.validators: HashMap<String, Regex>
    ingore_trailing_slashes,  \* bool
    history,                  \* the add_route and add_location calls made so far
    ret                       \* the latest call and what it returned

vars == <<dynamic_db, dynamic_db_size, static_db, locations_db, validators,
          ingore_trailing_slashes, history, ret>>

\* The router itself, without the record of the calls
table == <<dynamic_db, dynamic_db_size, static_db, locations_db, validators,
           ingore_trailing_slashes>>

\* Database::default(): a root without children and without handlers
DefaultDatabase == [n \in {<<>>} |-> <<>>]

\* The results of resolve: Option<(i32, Vec<(&str, &str)>)>, or the abort of
\* an unwrap on None
None == [kind |-> "None"]
Panic == [kind |-> "Panic"]
Some(handler, parameters) ==
    [kind |-> "Some", handler |-> handler, params |-> parameters]

\* struct Handler, built from a parsed pattern
new_handler(handler, method, parsed) ==
    [handler |-> handler,
     method |-> method,
     params_names |-> parsed.params_names,
     params_values |-> parsed.params_values,
     params_len |-> parsed.params_len]

(***************************************************************************)
(* Registration                                                            *)
(***************************************************************************)
\* Vec::resize_with(n, Database::default), called only to grow
resize_with(db, n) ==
    [i \in 1..n |-> IF i <= Len(db) THEN db[i] ELSE DefaultDatabase]

\* The walk of add_route through one trie: every node on the way to the leaf
\* is created or reused, and the handler is pushed at the leaf
trie_insert(database, octets, handler) ==
    LET way == {SubSeq(octets, 1, k) : k \in 0..Len(octets)}
    IN  [n \in (DOMAIN database) \cup way |->
            LET old == IF n \in DOMAIN database THEN database[n] ELSE <<>>
            IN  IF n = octets THEN Append(old, handler) ELSE old]

\* The match of add_route on the result of parse: the stores are left alone
\* on Err; on Ok the handler goes to the static map or to the trie of its depth
add_parsed_route(method, _path, handler, parsed) ==
        IF ~parsed.ok
        THEN [ok |-> FALSE, static_db |-> static_db, dynamic_db |-> dynamic_db,
              dynamic_db_size |-> dynamic_db_size]
        ELSE LET h == new_handler(handler, method, parsed)
                 depth == Len(parsed.octets)
                 grown == IF depth + 1 > Len(dynamic_db)
                          THEN resize_with(dynamic_db, depth + 1)
                          ELSE dynamic_db
             IN  IF \A i \in 1..Len(parsed.octets) : parsed.octets[i] # STAR
                 THEN [ok |-> TRUE,
                       static_db |->
                           map_insert(static_db, _path,
                               Append(IF _path \in DOMAIN static_db
                                      THEN static_db[_path] ELSE <<>>, h)),
                       dynamic_db |-> dynamic_db,
                       dynamic_db_size |-> dynamic_db_size]
                 ELSE [ok |-> TRUE,
                       static_db |-> static_db,
                       dynamic_db |->
                           [grown EXCEPT ![depth + 1] =
                               trie_insert(grown[depth + 1], parsed.octets, h)],
                       dynamic_db_size |->
                           IF depth + 1 > Len(dynamic_db)
                           THEN depth + 1 ELSE dynamic_db_size]

\* SquallRouter::add_route: its result and the stores after the call
add_route(method, path, handler) ==
    LET _path == IF ingore_trailing_slashes THEN trim_end_matches(path, "/") ELSE path
    IN  add_parsed_route(method, _path, handler, parse(validators, _path))

\* One step of a stable insertion sort under the comparator b.0.cmp(&a.0):
\* e goes behind every entry whose prefix is not smaller than its own
RECURSIVE sort_insert(_, _)
sort_insert(sorted, e) ==
    IF sorted = <<>> THEN <<e>>
    ELSE IF str_less(sorted[1][1], e[1]) THEN <<e>> \o sorted
    ELSE <<sorted[1]>> \o sort_insert(Tail(sorted), e)

\* A sort with the comparator turned round, a.0.cmp(&b.0): ascending by prefix
RECURSIVE sort_by_asc(_)
sort_by_asc(list) ==
    IF list = <<>> THEN <<>>
    ELSE LET rest == sort_by_asc(SubSeq(list, 1, Len(list) - 1))
             e == list[Len(list)]
             before == {i \in 1..Len(rest) : ~str_less(e[1], rest[i][1])}
         IN  SubSeq(rest, 1, Cardinality(before)) \o <<e>>
                 \o SubSeq(rest, Cardinality(before) + 1, Len(rest))

\* Vec::sort_by(|a, b| b.0.cmp(&a.0)): the whole list, descending by prefix
RECURSIVE sort_by_desc(_)
sort_by_desc(list) ==
    IF list = <<>> THEN <<>>
    ELSE sort_insert(sort_by_desc(SubSeq(list, 1, Len(list) - 1)), list[Len(list)])

\* An add_location that keeps an entry for a prefix that did not parse
add_location_keeps_failed(method, path, handler) ==
    LET parsed == parse(validators, path)
    IN  IF ~parsed.ok
        THEN [ok |-> FALSE,
              locations_db |-> sort_by_desc(Append(locations_db, <<path, <<>>>>))]
        ELSE [ok |-> TRUE,
              locations_db |->
                  sort_by_desc(Append(locations_db,
                      <<path, <<new_handler(handler, method, parsed)>>>>))]

\* An add_location that pushes a new entry without looking for the prefix
add_parsed_location_always_push(method, path, handler, parsed) ==
    IF ~parsed.ok
    THEN [ok |-> FALSE, locations_db |-> locations_db]
    ELSE [ok |-> TRUE,
          locations_db |->
              sort_by_desc(Append(locations_db,
                  <<path, <<new_handler(handler, method, parsed)>>>>))]

\* The body of add_location under if let Ok(parsed): nothing on Err; on Ok
\* the handler joins the entry of its prefix, or a new entry is pushed and the
\* list sorted
add_parsed_location(method, path, handler, parsed) ==
        IF ~parsed.ok
        THEN [ok |-> FALSE, locations_db |-> locations_db]
        ELSE LET h == new_handler(handler, method, parsed)
                 same == {i \in 1..Len(locations_db) : locations_db[i][1] = path}
             IN  IF same # {}
                 THEN LET i == CHOOSE j \in same : \A k \in same : j <= k
                      IN  [ok |-> TRUE,
                           locations_db |->
                               [locations_db EXCEPT ![i] =
                                   <<locations_db[i][1], Append(locations_db[i][2], h)>>]]
                 ELSE [ok |-> TRUE,
                       locations_db |->
                           sort_by_desc(Append(locations_db, <<path, <<h>>>>))]

\* SquallRouter::add_location: whether the pattern parsed (the call itself
\* returns nothing), and the location list after the call
add_location(method, path, handler) ==
    add_parsed_location(method, path, handler, parse(validators, path))

(***************************************************************************)
(* Resolution                                                              *)
(***************************************************************************)
NoNode == [some |-> FALSE]

\* A match that tries the "*" child before the literal one
child_of_wildcard_first(database, node, str_octet) ==
    IF Append(node, STAR) \in DOMAIN database
    THEN [some |-> TRUE, node |-> Append(node, STAR)]
    ELSE IF Append(node, str_octet) \in DOMAIN database
    THEN [some |-> TRUE, node |-> Append(node, str_octet)]
    ELSE [some |-> FALSE]

\* The match on database.children.get(str_octet): the literal child when there
\* is one, else the "*" child, else nothing
child_of(database, node, str_octet) ==
    IF Append(node, str_octet) \in DOMAIN database
    THEN [some |-> TRUE, node |-> Append(node, str_octet)]
    ELSE IF Append(node, STAR) \in DOMAIN database
    THEN [some |-> TRUE, node |-> Append(node, STAR)]
    ELSE NoNode

\* The loop of get_path_handlers from piece i on, standing at `node`
RECURSIVE walk(_, _, _, _, _, _)
walk(database, pieces, i, node, is_first_octet, allow_empty_octets) ==
    IF i > Len(pieces) THEN [some |-> TRUE, node |-> node]
    ELSE IF Len(pieces[i]) = 0 /\ (is_first_octet \/ allow_empty_octets)
    THEN walk(database, pieces, i + 1, node, is_first_octet, allow_empty_octets)
    ELSE LET next == child_of(database, node, pieces[i])
         IN  IF next.some
             THEN walk(database, pieces, i + 1, next.node, FALSE, allow_empty_octets)
             ELSE NoNode

\* get_path_handlers: the handler list of the node the walk ends at
get_path_handlers(database_root, path, octets_len, allow_empty_octets) ==
    IF octets_len + 1 <= Len(database_root)
    THEN LET database == database_root[octets_len + 1]
             end == walk(database, split(path, "/"), 1, <<>>, TRUE, allow_empty_octets)
         IN  IF end.some
             THEN [some |-> TRUE, handlers |-> database[end.node]]
             ELSE [some |-> FALSE]
    ELSE [some |-> FALSE]

\* A static lookup that forgets to filter by method
get_static_path_handler_any_method(method, path) ==
    IF path \in DOMAIN static_db /\ Len(static_db[path]) > 0
    THEN Some(static_db[path][1].handler, <<>>)
    ELSE None

\* SquallRouter::get_static_path_handler
get_static_path_handler(method, path) ==
    IF path \in DOMAIN static_db
    THEN LET v == static_db[path]
             hits == {i \in 1..Len(v) : v[i].method = method}
         IN  IF hits # {}
             THEN Some(v[CHOOSE i \in hits : \A j \in hits : i <= j].handler, <<>>)
             ELSE None
    ELSE None

\* path.split('/').skip(index + 1).next(): the piece, when there is one
nth_piece(path, index) ==
    LET pieces == split(path, "/")
    IN  IF index + 2 <= Len(pieces)
        THEN [some |-> TRUE, value |-> pieces[index + 2]]
        ELSE [some |-> FALSE]

\* An inner loop that asks the registry for the matcher of the alias at the
\* time of the request, where the code asks the matcher kept in the handler
RECURSIVE parameters_of_registry(_, _, _, _)
parameters_of_registry(handler, path, i, parameters) ==
    IF i > handler.params_len THEN [kind |-> "ok", parameters |-> parameters]
    ELSE LET param == handler.params_values[i]
             piece == nth_piece(path, param.index)
             validator == IF param.validator # NoValidator /\ <<"i">> \in DOMAIN validators
                          THEN validators[<<"i">>]
                          ELSE param.validator
         IN  IF ~piece.some THEN [kind |-> "panic"]
             ELSE IF validator # NoValidator /\ ~is_match(validator, piece.value)
             THEN [kind |-> "reject"]
             ELSE parameters_of_registry(handler, path, i + 1,
                      Append(parameters, <<handler.params_names[i], piece.value>>))

\* The inner loop of get_dynamic_path_handler over the parameters of one
\* handler, from parameter i on: the pairs, "reject" when a validator refuses
\* its value, "panic" when unwrap() finds no piece at the recorded index
RECURSIVE parameters_of(_, _, _, _)
parameters_of(handler, path, i, parameters) ==
    IF i > handler.params_len THEN [kind |-> "ok", parameters |-> parameters]
    ELSE LET param == handler.params_values[i]
             piece == nth_piece(path, param.index)
         IN  IF ~piece.some THEN [kind |-> "panic"]
             ELSE IF param.validator # NoValidator /\ ~is_match(param.validator, piece.value)
             THEN [kind |-> "reject"]
             ELSE parameters_of(handler, path, i + 1,
                      Append(parameters, <<handler.params_names[i], piece.value>>))

\* The 'outer loop of get_dynamic_path_handler from handler k on
RECURSIVE scan_handlers(_, _, _, _)
scan_handlers(handlers, k, method, path) ==
    IF k > Len(handlers) THEN None
    ELSE IF handlers[k].method # method
    THEN scan_handlers(handlers, k + 1, method, path)
    ELSE LET got == parameters_of(handlers[k], path, 1, <<>>)
         IN  CASE got.kind = "panic" -> Panic
               [] got.kind = "reject" -> scan_handlers(handlers, k + 1, method, path)
               [] got.kind = "ok" -> Some(handlers[k].handler, got.parameters)

\* The segment count get_dynamic_path_handler selects the trie by
octets_len_of(path) ==
    IF ingore_trailing_slashes /\ ends_with(path, "/")
    THEN count(path, "/") - 1
    ELSE count(path, "/")

\* SquallRouter::get_dynamic_path_handler
get_dynamic_path_handler(method, path) ==
    LET found == get_path_handlers(dynamic_db, path, octets_len_of(path),
                                   ingore_trailing_slashes)
    IN  IF found.some
        THEN scan_handlers(found.handlers, 1, method, path)
        ELSE None

\* The scan of get_location_handler from entry i on
RECURSIVE scan_locations(_, _, _)
scan_locations(i, method, path) ==
    IF i > Len(locations_db) THEN None
    ELSE IF ~starts_with(path, locations_db[i][1])
    THEN scan_locations(i + 1, method, path)
    ELSE LET v == locations_db[i][2]
             hits == {k \in 1..Len(v) : v[k].method = method}
         IN  IF hits # {}
             THEN Some(v[CHOOSE k \in hits : \A j \in hits : k <= j].handler, <<>>)
             ELSE scan_locations(i + 1, method, path)

\* A location lookup that gives up at the first entry whose prefix matches
get_location_handler_first_prefix(method, path) ==
    LET matching == {i \in 1..Len(locations_db) : starts_with(path, locations_db[i][1])}
    IN  IF matching = {} THEN None
        ELSE LET v == locations_db[CHOOSE i \in matching : \A j \in matching : i <= j][2]
                 hits == {k \in 1..Len(v) : v[k].method = method}
             IN  IF hits # {}
                 THEN Some(v[CHOOSE k \in hits : \A j \in hits : k <= j].handler, <<>>)
                 ELSE None

\* SquallRouter::get_location_handler
get_location_handler(method, path) == scan_locations(1, method, path)

\* A resolve that hands the path to the tiers as it came
resolve_path_untrimmed(path) == path

\* The path resolve hands to the three tiers
resolve_path(path) ==
    IF ingore_trailing_slashes THEN trim_end_matches(path, "/") ELSE path

\* A resolve that asks the dynamic trie before the static map
resolve_dynamic_first(method, path) ==
    LET _path == resolve_path(path)
        s == get_static_path_handler(method, _path)
        d == get_dynamic_path_handler(method, _path)
    IN  IF d.kind # "None" THEN d
        ELSE IF s.kind = "Some" THEN s
        ELSE get_location_handler(method, _path)

\* SquallRouter::resolve
resolve(method, path) ==
    LET _path == resolve_path(path)
        s == get_static_path_handler(method, _path)
        d == get_dynamic_path_handler(method, _path)
    IN  IF s.kind = "Some" THEN s
        ELSE IF d.kind # "None" THEN d
        ELSE get_location_handler(method, _path)

(***************************************************************************)
(* The callers' inputs                                                     *)
(***************************************************************************)
\* The number of add_route and add_location calls of a run
MaxCalls == 2

Methods == {"GET", "POST"}

\* The one alias the callers register; a pattern that names it before it is
\* registered names an unknown validator
Aliases == {<<"i">>}

RoutePatterns ==
    { <<"/", "a">>,                                       \* /a
      <<"/", "a", "/">>,                                  \* /a/
      <<"/", "{", "x", "}">>,                             \* /{x}
      <<"/", "{", "x", ":", "s", "t", "r", "}", "/">>,    \* /{x:str}/
      <<"/", "{", "x", ":", "i", "}">>,                   \* /{x:i}
      <<"/", "a", "/", "/", "{", "x", "}">>,              \* /a//{x}
      <<"/", "a", "/", "b", "/", "{", "x", "}">>,         \* /a/b/{x}
      <<"/", "{", "x", "}", "/", "{", "y", "}", "/", "b">>, \* /{x}/{y}/b
      <<"/", "a", "{", "x", "}">>,                        \* /a{x}
      <<"/", "^">>,                                       \* /^
      <<"/", "*">> }                                      \* /*

LocationPrefixes ==
    { <<"/">>,                                            \* /
      <<"/", "a">>,                                       \* /a
      <<"/", "a", "a">>,                                  \* /aa
      <<"/", "{", "x", ":", "i", "}">> }                  \* /{x:i}

Paths ==
    { <<>>,                                               \* (empty)
      <<"/">>,                                            \* /
      <<"a">>,                                            \* a
      <<"/", "a">>,                                       \* /a
      <<"/", "a", "/">>,                                  \* /a/
      <<"/", "b">>,                                       \* /b
      <<"/", "a", "a">>,                                  \* /aa
      <<"/", "a", "/", "b">>,                             \* /a/b
      <<"/", "a", "/", "/", "b">>,                        \* /a//b
      <<"/", "a", "/", "b", "/", "b">>,                   \* /a/b/b
      <<"/", "a", "/", "a", "/", "b">>,                   \* /a/a/b
      <<"/", "b", "/", "a", "/", "b">> }                  \* /b/a/b

\* The calls made under the second method: enough of them for a route, a
\* location and a request of another method than the one registered
RouteCalls ==
    ({"GET"} \X RoutePatterns)
        \cup ({"POST"} \X { <<"/", "a">>, <<"/", "{", "x", "}">> })

LocationCalls ==
    ({"GET"} \X LocationPrefixes)
        \cup ({"POST"} \X { <<"/", "a">>, <<"/", "a", "a">> })

ResolveCalls ==
    ({"GET"} \X Paths)
        \cup ({"POST"} \X { <<"/", "a">>, <<"/", "a", "a">>, <<"/", "b">> })

(***************************************************************************)
(* The calls                                                               *)
(***************************************************************************)
Init ==
    /\ dynamic_db = <<>>
    /\ dynamic_db_size = 0
    /\ static_db = EmptyMap
    /\ locations_db = <<>>
    /\ validators = EmptyMap
    /\ ingore_trailing_slashes = FALSE
    /\ history = <<>>
    /\ ret = [op |-> "new"]

\* PathParser::set_ignore_trailing_slashes, which router.rs calls and path.rs
\* does not define.  The specification has it switch the parser to the mode
\* in which the trailing slash of every pattern is stripped; normalized
\* strips it in either mode, and the parser (a registry of validators) keeps
\* nothing else of the call.
path_parser_set_ignore_trailing_slashes(registry) == registry

\* SquallRouter::set_ignore_trailing_slashes
SetIgnoreTrailingSlashes ==
    /\ ingore_trailing_slashes' = TRUE
    /\ validators' = path_parser_set_ignore_trailing_slashes(validators)
    /\ ret' = [op |-> "set_ignore_trailing_slashes"]
    /\ UNCHANGED <<dynamic_db, dynamic_db_size, static_db, locations_db,
                   history>>

\* SquallRouter::add_validator
AddValidator(alias, regex) ==
    LET r == add_validator(validators, alias, regex)
    IN  /\ validators' = r.validators
        /\ ret' = [op |-> "add_validator", alias |-> alias, regex |-> regex,
                   ok |-> r.ok]
        /\ UNCHANGED <<dynamic_db, dynamic_db_size, static_db, locations_db,
                       ingore_trailing_slashes, history>>

\* SquallRouter::add_route; the caller numbers its handlers as it goes
AddRoute(method, path) ==
    /\ Len(history) < MaxCalls
    /\ \E handler \in {Len(history)} : \E r \in {add_route(method, path, handler)} :
        /\ static_db' = r.static_db
        /\ dynamic_db' = r.dynamic_db
        /\ dynamic_db_size' = r.dynamic_db_size
        /\ history' = Append(history, [op |-> "add_route", method |-> method,
                                       path |-> path, handler |-> handler,
                                       ok |-> r.ok])
        /\ ret' = [op |-> "add_route", method |-> method, path |-> path,
                   handler |-> handler, ok |-> r.ok]
        /\ UNCHANGED <<locations_db, validators, ingore_trailing_slashes>>

\* SquallRouter::add_location
AddLocation(method, path) ==
    /\ Len(history) < MaxCalls
    /\ \E handler \in {Len(history)} : \E r \in {add_location(method, path, handler)} :
        /\ locations_db' = r.locations_db
        /\ history' = Append(history, [op |-> "add_location", method |-> method,
                                       path |-> path, handler |-> handler,
                                       ok |-> r.ok])
        /\ ret' = [op |-> "add_location", method |-> method, path |-> path,
                   handler |-> handler, ok |-> r.ok]
        /\ UNCHANGED <<dynamic_db, dynamic_db_size, static_db, validators,
                       ingore_trailing_slashes>>

\* SquallRouter::resolve
Resolve(method, path) ==
    /\ ret' = [op |-> "resolve", method |-> method, path |-> path,
               result |-> resolve(method, path)]
    /\ UNCHANGED <<dynamic_db, dynamic_db_size, static_db, locations_db,
                   validators, ingore_trailing_slashes, history>>

Next ==
    \/ SetIgnoreTrailingSlashes
    \/ \E alias \in Aliases, regex \in Regexes : AddValidator(alias, regex)
    \/ \E call \in RouteCalls : AddRoute(call[1], call[2])
    \/ \E call \in LocationCalls : AddLocation(call[1], call[2])
    \/ \E call \in ResolveCalls : Resolve(call[1], call[2])

Spec == Init /\ [][Next]_vars

(***************************************************************************)
(* The router with locations only: three add_location calls, where Spec    *)
(* has two registrations of any kind                                       *)
(***************************************************************************)
\* The number of add_location calls of a run of SpecLocations
MaxLocations == 3

\* SquallRouter::add_location, up to MaxLocations times
AddLocationOnly(method, path) ==
    /\ Len(history) < MaxLocations
    /\ \E handler \in {Len(history)} : \E r \in {add_location(method, path, handler)} :
        /\ locations_db' = r.locations_db
        /\ history' = Append(history, [op |-> "add_location", method |-> method,
                                       path |-> path, handler |-> handler,
                                       ok |-> r.ok])
        /\ ret' = [op |-> "add_location", method |-> method, path |-> path,
                   handler |-> handler, ok |-> r.ok]
        /\ UNCHANGED <<dynamic_db, dynamic_db_size, static_db, validators,
                       ingore_trailing_slashes>>

NextLocations ==
    \/ SetIgnoreTrailingSlashes
    \/ \E alias \in Aliases, regex \in Regexes : AddValidator(alias, regex)
    \/ \E method \in Methods, path \in LocationPrefixes : AddLocationOnly(method, path)
    \/ \E call \in ResolveCalls : Resolve(call[1], call[2])

SpecLocations == Init /\ [][NextLocations]_vars

(***************************************************************************)
(* Vocabulary of the properties                                            *)
(***************************************************************************)
\* The latest call was resolve
Resolved == ret.op = "resolve"

\* The indices of the registrations that succeeded
Registered == {i \in 1..Len(history) : history[i].ok}

\* The least element of a non-empty set of numbers
Least(S) == CHOOSE i \in S : \A j \in S : i <= j

(***************************************************************************)
(* C1: resolve answers from the first of the three tiers, in the order     *)
(* static map, dynamic trie, location list, that yields a handler for the  *)
(* method: a static hit is returned with an empty parameter list even when *)
(* the dynamic tier has a match of its own; a dynamic hit is returned      *)
(* whatever the locations hold; and the answer comes from a location       *)
(* exactly when the static and the dynamic tier both yield nothing.        *)
(***************************************************************************)
C1_TierPrecedence ==
    Resolved =>
        LET p == resolve_path(ret.path)
            s == get_static_path_handler(ret.method, p)
            d == get_dynamic_path_handler(ret.method, p)
            l == get_location_handler(ret.method, p)
            from_location ==
                /\ ret.result.kind = "Some"
                /\ \E i \in Registered :
                      /\ history[i].op = "add_location"
                      /\ history[i].handler = ret.result.handler
        IN  /\ s.kind = "Some" => ret.result = s /\ ret.result.params = <<>>
            /\ s.kind = "None" /\ d.kind = "Some" => ret.result = d
            /\ s.kind = "None" /\ d.kind = "None" => ret.result = l
            /\ from_location <=> s.kind = "None" /\ d.kind = "None" /\ l.kind = "Some"

\* A static and a dynamic route of the method both match the path, a location
\* covers it too, and resolve has answered
C1_Witness ==
    /\ Resolved
    /\ get_static_path_handler(ret.method, resolve_path(ret.path)).kind = "Some"
    /\ get_dynamic_path_handler(ret.method, resolve_path(ret.path)).kind = "Some"
    /\ ret.result.kind = "Some"

(***************************************************************************)
(* C4: a handler id that resolve returns was registered, by an add_route   *)
(* or add_location call that succeeded, under a method string equal to the *)
(* requested one; and while nothing is registered under the requested      *)
(* method none of the three tiers yields anything, whatever is registered  *)
(* under other methods.                                                    *)
(***************************************************************************)
C4_MethodMatches ==
    Resolved =>
        LET p == resolve_path(ret.path)
            under_method == {i \in Registered : history[i].method = ret.method}
        IN  /\ ret.result.kind = "Some" =>
                  \E i \in under_method : history[i].handler = ret.result.handler
            /\ under_method = {} =>
                  /\ get_static_path_handler(ret.method, p) = None
                  /\ get_dynamic_path_handler(ret.method, p) = None
                  /\ get_location_handler(ret.method, p) = None
                  /\ ret.result = None

\* Routes of another method are registered in the static map and in a trie, the
\* path is one they resolve under their own method, and resolve under the
\* requested method has found nothing
C4_Witness ==
    /\ Resolved
    /\ ret.result = None
    /\ {i \in Registered : history[i].method = ret.method} = {}
    /\ Len(history) = 2
    /\ \E other \in Methods \ {ret.method} :
          /\ get_static_path_handler(other, resolve_path(ret.path)).kind = "Some"
          /\ get_dynamic_path_handler(other, resolve_path(ret.path)).kind = "Some"

(***************************************************************************)
(* C9: when the static and the dynamic tier yield nothing, resolve answers *)
(* from the location list in its stored order: the first entry whose       *)
(* prefix is a prefix, character by character, of the path handed to the   *)
(* tiers and that holds a handler of the method wins, with the first such  *)
(* handler of that entry and an empty parameter list; an entry whose       *)
(* prefix matches but that holds no handler of the method is passed over;  *)
(* the prefix may end inside a segment of the path.                        *)
(***************************************************************************)
C9_LocationScan ==
    Resolved =>
        LET p == resolve_path(ret.path)
            of_method(i) ==
                {k \in 1..Len(locations_db[i][2]) :
                    locations_db[i][2][k].method = ret.method}
            eligible ==
                {i \in 1..Len(locations_db) :
                    /\ Len(locations_db[i][1]) <= Len(p)
                    /\ \A c \in 1..Len(locations_db[i][1]) : locations_db[i][1][c] = p[c]
                    /\ of_method(i) # {}}
        IN  (/\ get_static_path_handler(ret.method, p) = None
             /\ get_dynamic_path_handler(ret.method, p) = None)
            => IF eligible = {}
               THEN ret.result = None
               ELSE ret.result =
                        Some(locations_db[Least(eligible)][2]
                                 [Least(of_method(Least(eligible)))].handler,
                             <<>>)

\* The first entry whose prefix matches holds no handler of the method and is
\* passed over for a later entry, whose prefix ends inside a segment of the path
C9_Witness ==
    /\ Resolved
    /\ ret.result.kind = "Some"
    /\ Len(locations_db) = 2
    /\ starts_with(resolve_path(ret.path), locations_db[1][1])
    /\ \A k \in 1..Len(locations_db[1][2]) : locations_db[1][2][k].method # ret.method
    /\ \E k \in 1..Len(locations_db[2][2]) :
          locations_db[2][2][k].handler = ret.result.handler
    /\ Len(resolve_path(ret.path)) > Len(locations_db[2][1])
    /\ resolve_path(ret.path)[Len(locations_db[2][1]) + 1] # "/"
    /\ locations_db[2][1][Len(locations_db[2][1])] # "/"

(***************************************************************************)
(* C10: the walk through a dynamic trie takes one branch for every segment *)
(* it does not skip and never goes back: where the node has a child keyed  *)
(* by the text of the segment that child is taken, and the wildcard child  *)
(* of that node is not tried, even if the literal branch ends in a dead    *)
(* end or in a leaf none of whose handlers is admitted; the wildcard child *)
(* is taken only where there is no literal child; where there is neither   *)
(* the dynamic tier yields no match.                                       *)
(***************************************************************************)
\* The segments the walk takes a branch for: empty pieces are skipped before
\* the first branch, and everywhere in trailing-slash-insensitive mode
RECURSIVE walked_octets(_, _)
walked_octets(pieces, allow_empty_octets) ==
    IF pieces = <<>> THEN <<>>
    ELSE IF Len(pieces[1]) = 0
    THEN walked_octets(Tail(pieces), allow_empty_octets)
    ELSE IF allow_empty_octets
    THEN <<pieces[1]>> \o walked_octets(Tail(pieces), allow_empty_octets)
    ELSE pieces

\* The nodes of the trie a search with backtracking could end at
structural_matches(database, octets) ==
    {n \in DOMAIN database :
        /\ Len(n) = Len(octets)
        /\ \A i \in 1..Len(n) : n[i] = octets[i] \/ n[i] = STAR}

\* Node n lies on the one way the walk may go: literal child first, wildcard
\* child only for want of a literal one
on_the_way(database, octets, n) ==
    /\ n \in DOMAIN database
    /\ Len(n) <= Len(octets)
    /\ \A i \in 1..Len(n) :
          IF Append(SubSeq(n, 1, i - 1), octets[i]) \in DOMAIN database
          THEN n[i] = octets[i]
          ELSE n[i] = STAR

C10_NoBacktracking ==
    Resolved =>
        LET p == resolve_path(ret.path)
            k == octets_len_of(p)
            d == get_dynamic_path_handler(ret.method, p)
        IN  IF k + 1 > Len(dynamic_db)
            THEN d = None
            ELSE LET database == dynamic_db[k + 1]
                     octets == walked_octets(split(p, "/"), ingore_trailing_slashes)
                     ends == {n \in DOMAIN database :
                                 Len(n) = Len(octets) /\ on_the_way(database, octets, n)}
                 IN  /\ Cardinality(ends) <= 1
                     /\ ends = {} => d = None
                     /\ d.kind = "Some" =>
                           \E n \in ends : \E j \in 1..Len(database[n]) :
                               database[n][j].handler = d.handler

\* The literal branch is a dead end, a wildcard branch the walk never tries
\* leads to a handler of the method, and the dynamic tier has yielded nothing
C10_Witness ==
    /\ Resolved
    /\ ret.result = None
    /\ octets_len_of(resolve_path(ret.path)) + 1 <= Len(dynamic_db)
    /\ LET p == resolve_path(ret.path)
           database == dynamic_db[octets_len_of(p) + 1]
           octets == walked_octets(split(p, "/"), ingore_trailing_slashes)
       IN  /\ \A i \in 1..Len(octets) : octets[i] # <<>>
           /\ \A n \in DOMAIN database :
                 Len(n) = Len(octets) => ~on_the_way(database, octets, n)
           /\ \E n \in structural_matches(database, octets) :
                 \E j \in 1..Len(database[n]) :
                     /\ database[n][j].method = ret.method
                     /\ parameters_of(database[n][j], p, 1, <<>>).kind = "ok"

(***************************************************************************)
(* C5: a registration that fails changes nothing.  A step in which         *)
(* add_route returns an error, add_location drops a pattern that does not  *)
(* parse, or add_validator returns an error leaves the static map, the     *)
(* tries, the locations, the validator registry and the mode as they were; *)
(* resolve reads nothing else, so every resolve result is as before.       *)
(***************************************************************************)
FailedRegistration ==
    /\ ret.op \in {"add_route", "add_location", "add_validator"}
    /\ ~ret.ok

C5_FailureChangesNothing ==
    [][FailedRegistration' => table' = table]_vars

\* add_route has returned an error for a pattern naming an unknown validator,
\* on a router that already holds a route, a location being dropped likewise
\* before
C5_Witness ==
    /\ ret.op = "add_route"
    /\ ~ret.ok
    /\ ret.path = <<"/", "{", "x", ":", "i", "}">>
    /\ Len(history) = 2
    /\ history[1].op = "add_route"
    /\ history[1].ok
    /\ static_db # EmptyMap

(***************************************************************************)
(* C6: in trailing-slash-insensitive mode a request path resolves the same *)
(* with and without a trailing slash: resolve(m, p) and resolve(m, p + "/")*)
(* return the same handler id and the same parameter list, for the routes  *)
(* add_route stored with or without a trailing slash of their own.  The    *)
(* mode being set before any registration is one case of the mode being    *)
(* set, which is all the formula asks.                                     *)
(***************************************************************************)
C6_TrailingSlashIgnored ==
    Resolved /\ ingore_trailing_slashes =>
        ret.result = resolve(ret.method, Append(ret.path, "/"))

\* The mode was set before the first registration (a static route written
\* with a trailing slash is keyed without it), a dynamic route written with a
\* trailing slash follows, and a path without the slash has resolved to it
C6_Witness ==
    /\ ingore_trailing_slashes
    /\ Len(history) = 2
    /\ history[1].ok /\ history[1].path = <<"/", "a", "/">>
    /\ <<"/", "a">> \in DOMAIN static_db
    /\ history[2].ok
    /\ history[2].path = <<"/", "{", "x", ":", "s", "t", "r", "}", "/">>
    /\ Resolved
    /\ ret.path = <<"/", "b">>
    /\ ret.result = Some(1, << << <<"x">>, <<"b">> >> >>)
    /\ resolve(ret.method, <<"/", "b", "/">>) = ret.result

(***************************************************************************)
(* C2: for a registered pattern whose dynamic segments carry no validator  *)
(* ({name} or {name:str}) and a path got from the pattern by putting a     *)
(* non-empty text without a slash in the place of every dynamic segment,   *)
(* resolve under the registered method returns the handler of that route   *)
(* and one (name, value) pair for every dynamic segment, from left to      *)
(* right, the value being the segment of the path at that place.  Stated   *)
(* for a router holding the one route, its pattern free of empty segments, *)
(* where no other route can stand in the way.                              *)
(***************************************************************************)
\* The piece is written {name} or {name:str}
unvalidated_segment(piece) ==
    LET cap == param_captures(piece)
    IN  cap.matched /\ (~cap.has_alias \/ cap.alias = STR_ALIAS)

\* The pattern has a dynamic segment, and each one it has is unvalidated
unvalidated_pattern(pattern) ==
    LET pieces == split(pattern, "/")
    IN  /\ \E i \in 1..Len(pieces) : unvalidated_segment(pieces[i])
        /\ \A i \in 1..Len(pieces) :
              contains(pieces[i], "{") \/ contains(pieces[i], "*")
                  => unvalidated_segment(pieces[i])

\* The path is the pattern with a non-empty text for every dynamic segment
instance_of(path, pattern) ==
    LET pp == split(pattern, "/")
        qq == split(path, "/")
    IN  /\ Len(pp) = Len(qq)
        /\ \A i \in 1..Len(pp) :
              IF unvalidated_segment(pp[i]) THEN qq[i] # <<>> ELSE qq[i] = pp[i]

\* The (name, value) pairs of the dynamic segments, from piece i on
RECURSIVE expected_params(_, _, _)
expected_params(pp, qq, i) ==
    IF i > Len(pp) THEN <<>>
    ELSE IF unvalidated_segment(pp[i])
    THEN << <<param_captures(pp[i]).name, qq[i]>> >> \o expected_params(pp, qq, i + 1)
    ELSE expected_params(pp, qq, i + 1)

\* No piece of the pattern but the first and the last is empty
no_empty_segment(pattern) ==
    LET pieces == split(pattern, "/")
    IN  \A i \in 2..(Len(pieces) - 1) : pieces[i] # <<>>

C2_UnvalidatedSegmentsResolve ==
    Resolved /\ Len(history) = 1 =>
        \A i \in Registered :
            (/\ history[i].op = "add_route"
             /\ history[i].method = ret.method
             /\ unvalidated_pattern(history[i].path)
             /\ no_empty_segment(history[i].path)
             /\ instance_of(ret.path, history[i].path))
            => ret.result =
                   Some(history[i].handler,
                        expected_params(split(history[i].path, "/"),
                                        split(ret.path, "/"), 1))

(***************************************************************************)
(* C3: where several handler entries sit at the leaf the walk ends at, the *)
(* dynamic tier returns the earliest entry whose method is the requested   *)
(* one and every validator of which accepts the segment at the index of    *)
(* its parameter; an entry a validator of which rejects is skipped for the *)
(* next one, and when no entry is left the tier yields no match, not an    *)
(* error.                                                                  *)
(***************************************************************************)
\* The entry is of the method and none of its validators rejects
admitted(handler, method, path) ==
    /\ handler.method = method
    /\ \A j \in 1..handler.params_len :
          handler.params_values[j].validator # NoValidator =>
              LET piece == nth_piece(path, handler.params_values[j].index)
              IN  piece.some /\ is_match(handler.params_values[j].validator, piece.value)

C3_FirstAdmittedHandler ==
    Resolved =>
        LET p == resolve_path(ret.path)
            found == get_path_handlers(dynamic_db, p, octets_len_of(p),
                                       ingore_trailing_slashes)
            d == get_dynamic_path_handler(ret.method, p)
        IN  (found.some /\ Len(found.handlers) >= 2) =>
                LET adm == {k \in 1..Len(found.handlers) :
                               admitted(found.handlers[k], ret.method, p)}
                IN  IF adm = {}
                    THEN d = None
                    ELSE d.kind = "Some" /\ d.handler = found.handlers[Least(adm)].handler

(***************************************************************************)
(* C7: while trailing-slash-insensitive mode is off the trailing slash of  *)
(* a route counts.  A dynamic route registered with a trailing slash       *)
(* resolves the path with the slash and not the path without it; one       *)
(* registered without it resolves the path without the slash and not the   *)
(* path with it; a static route resolves its own exact path only.  Stated  *)
(* for a router holding the one route.                                     *)
(***************************************************************************)
C7_TrailingSlashCounts ==
    (/\ Resolved
     /\ ~ingore_trailing_slashes
     /\ Len(history) = 1
     /\ history[1].op = "add_route"
     /\ history[1].ok
     /\ history[1].method = ret.method)
    => LET pattern == history[1].path
           with_slash == ret.path = <<"/", "a", "/">>
           without_slash == ret.path = <<"/", "a">>
           x_is_a == Some(0, << << <<"x">>, <<"a">> >> >>)
       IN  /\ pattern = <<"/", "{", "x", ":", "s", "t", "r", "}", "/">> =>
                 /\ with_slash => ret.result = x_is_a
                 /\ without_slash => ret.result = None
           /\ pattern = <<"/", "{", "x", "}">> =>
                 /\ without_slash => ret.result = x_is_a
                 /\ with_slash => ret.result = None
           /\ pattern = <<"/", "a", "/">> =>
                 /\ with_slash => ret.result = Some(0, <<>>)
                 /\ without_slash => ret.result = None
           /\ pattern = <<"/", "a">> =>
                 /\ without_slash => ret.result = Some(0, <<>>)
                 /\ with_slash => ret.result = None

(***************************************************************************)
(* C8: resolve is total: whatever was registered and whatever the method   *)
(* and the path, it ends with a match or with no match and never aborts;   *)
(* the segment at the recorded index of a parameter is always there.       *)
(***************************************************************************)
C8_ResolveTotal ==
    Resolved => ret.result.kind \in {"Some", "None"}

(***************************************************************************)
(* C11: after every call the location list is in strictly descending       *)
(* order of prefix, so that no two entries have the same prefix.  An       *)
(* add_location of a prefix the list already has appends its handler to    *)
(* the handler list of that entry, behind the handlers already there, and  *)
(* leaves every entry at its place; one that fails leaves the list as it   *)
(* was.                                                                    *)
(***************************************************************************)
\* Each prefix is smaller than the one before it
strictly_descending(list) ==
    \A i \in 1..(Len(list) - 1) : str_less(list[i + 1][1], list[i][1])

\* list is `before` with handler h of method m pushed at entry i
pushed_at(list, before, i, h, m) ==
    /\ Len(list) = Len(before)
    /\ \A j \in 1..Len(before) :
          /\ list[j][1] = before[j][1]
          /\ j # i => list[j][2] = before[j][2]
    /\ Len(list[i][2]) = Len(before[i][2]) + 1
    /\ SubSeq(list[i][2], 1, Len(before[i][2])) = before[i][2]
    /\ list[i][2][Len(list[i][2])].handler = h
    /\ list[i][2][Len(list[i][2])].method = m

C11_LocationsSorted ==
    [][/\ strictly_descending(locations_db')
       /\ (Len(history') = Len(history) + 1 /\ ret'.op = "add_location") =>
              IF ~ret'.ok
              THEN locations_db' = locations_db
              ELSE \A i \in 1..Len(locations_db) :
                      locations_db[i][1] = ret'.path =>
                          pushed_at(locations_db', locations_db, i,
                                    ret'.handler, ret'.method)]_vars

\* Two entries, and the third call repeated the prefix of the first
C11_Witness ==
    /\ Len(history) = 3
    /\ ret.op = "add_location"
    /\ \A i \in 1..3 : history[i].ok
    /\ history[3].path = history[1].path
    /\ history[2].path # history[1].path
    /\ Len(locations_db) = 2
    /\ \E i \in 1..2 :
          /\ locations_db[i][1] = history[1].path
          /\ Len(locations_db[i][2]) = 2
          /\ locations_db[i][2][1].handler = 0
          /\ locations_db[i][2][2].handler = 2

(***************************************************************************)
(* C12: a successful add_route stores one handler entry in one place and   *)
(* changes nothing else.  A pattern none of whose segments is written      *)
(* {...} goes to the static map and leaves the dynamic tiers alone; a      *)
(* pattern with such a segment and k non-empty segments goes to a node of  *)
(* depth k of the trie of tier k and leaves the static map alone.  In      *)
(* every table the tries hold handlers at depth-k nodes of tier k only,    *)
(* and the array of tiers never gets shorter.                              *)
(***************************************************************************)
\* The piece is written {...}
braced(piece) ==
    Len(piece) >= 2 /\ piece[1] = "{" /\ piece[Len(piece)] = "}"

\* The number of non-empty segments of the pattern
segments_count(pattern) ==
    Cardinality({i \in 1..Len(split(pattern, "/")) : split(pattern, "/")[i] # <<>>})

\* The handler list at node n of tier d (d = depth + 1), empty where there
\* is no such node
handlers_at(db, d, n) ==
    IF d <= Len(db) /\ n \in DOMAIN db[d] THEN db[d][n] ELSE <<>>

\* list is `before` with one entry pushed, the entry of handler h
one_pushed(list, before, h) ==
    /\ Len(list) = Len(before) + 1
    /\ SubSeq(list, 1, Len(before)) = before
    /\ list[Len(list)].handler = h

\* The static map got one entry, the entry of handler h, under one key
static_stored(h) ==
    /\ DOMAIN static_db \subseteq DOMAIN static_db'
    /\ \E key \in DOMAIN static_db' :
          /\ one_pushed(static_db'[key],
                        IF key \in DOMAIN static_db THEN static_db[key] ELSE <<>>, h)
          /\ \A other \in DOMAIN static_db' \ {key} :
                other \in DOMAIN static_db /\ static_db'[other] = static_db[other]

\* The tries got one entry, the entry of handler h, at a depth-k node of tier k
dynamic_stored(h, k) ==
    /\ Len(dynamic_db') >= k + 1
    /\ \E node \in DOMAIN dynamic_db'[k + 1] :
          /\ Len(node) = k
          /\ one_pushed(dynamic_db'[k + 1][node],
                        handlers_at(dynamic_db, k + 1, node), h)
          /\ \A d \in 1..Len(dynamic_db') : \A n \in DOMAIN dynamic_db'[d] :
                (d # k + 1 \/ n # node) =>
                    dynamic_db'[d][n] = handlers_at(dynamic_db, d, n)

\* Handlers sit at depth-k nodes of tier k only
handlers_at_depth ==
    \A d \in 1..Len(dynamic_db) : \A n \in DOMAIN dynamic_db[d] :
        dynamic_db[d][n] # <<>> => Len(n) = d - 1

C12_OneRouteOnePlace ==
    [][/\ handlers_at_depth'
       /\ Len(dynamic_db') >= Len(dynamic_db)
       /\ dynamic_db_size' = Len(dynamic_db')
       /\ (Len(history') = Len(history) + 1 /\ ret'.op = "add_route" /\ ret'.ok) =>
              /\ UNCHANGED <<locations_db, validators, ingore_trailing_slashes>>
              /\ IF \A i \in 1..Len(split(ret'.path, "/")) :
                        ~braced(split(ret'.path, "/")[i])
                 THEN static_stored(ret'.handler) /\ dynamic_db' = dynamic_db
                 ELSE /\ dynamic_stored(ret'.handler, segments_count(ret'.path))
                      /\ static_db' = static_db]_vars

(***************************************************************************)
(* C13: the index recorded for a parameter is the 0-based place, among the *)
(* non-empty segments of the pattern, of the dynamic segment that declared *)
(* it, and the parameters of a pattern are in ascending order of index.    *)
(* So every handler entry stored in tier k has its j-th parameter at the   *)
(* place of the j-th wildcard of its node, a place below k.                *)
(***************************************************************************)
\* The place (from 1) of the j-th "*" among the octets of the node, 0 when
\* the node has fewer
wildcard_place(node, j) ==
    LET places == {p \in 1..Len(node) :
                      /\ node[p] = STAR
                      /\ Cardinality({q \in 1..p : node[q] = STAR}) = j}
    IN  IF places = {} THEN 0 ELSE CHOOSE p \in places : TRUE

C13_ParamIndexIsPosition ==
    \A d \in 1..Len(dynamic_db) : \A node \in DOMAIN dynamic_db[d] :
        \A e \in 1..Len(dynamic_db[d][node]) :
            LET handler == dynamic_db[d][node][e]
            IN  \A j \in 1..handler.params_len :
                    /\ handler.params_values[j].index < d - 1
                    /\ handler.params_values[j].index + 1 = wildcard_place(node, j)

(***************************************************************************)
(* C14: an add_validator for an alias that has a matcher replaces it for   *)
(* the registrations that follow and for those only.  The call changes the *)
(* registry and nothing else; the matcher a route carries is the one the   *)
(* registry held for its alias when the route was added; and resolve asks  *)
(* the matcher the route carries, whatever the registry holds by then, so  *)
(* that the answers for the routes registered before the call stay as they *)
(* were.                                                                   *)
(***************************************************************************)
\* The validators carried by the entries at the leaf "*" of tier 1
carried_validators ==
    IF Len(dynamic_db) >= 2 /\ <<STAR>> \in DOMAIN dynamic_db[2]
    THEN {dynamic_db[2][<<STAR>>][e].params_values[1].validator :
             e \in {k \in 1..Len(dynamic_db[2][<<STAR>>]) :
                       dynamic_db[2][<<STAR>>][k].params_len = 1}}
    ELSE {}

\* The latest resolve reached the leaf "*" of tier 1, and the dynamic tier
\* gave the first entry there that the matcher it carries admits
answered_by_carried_matcher ==
    LET p == resolve_path(ret.path)
        found == get_path_handlers(dynamic_db, p, octets_len_of(p),
                                   ingore_trailing_slashes)
        d == get_dynamic_path_handler(ret.method, p)
    IN  (octets_len_of(p) = 1 /\ found.some) =>
            LET adm == {k \in 1..Len(found.handlers) :
                           admitted(found.handlers[k], ret.method, p)}
            IN  IF adm = {}
                THEN d = None
                ELSE d.kind = "Some" /\ d.handler = found.handlers[Least(adm)].handler

C14_ValidatorOverwrite ==
    [][/\ Resolved => answered_by_carried_matcher
       /\ ret'.op = "add_validator" =>
              /\ UNCHANGED <<dynamic_db, dynamic_db_size, static_db, locations_db,
                             ingore_trailing_slashes>>
              /\ ret'.ok => validators'[ret'.alias] = ret'.regex
       /\ (/\ Len(history') = Len(history) + 1
           /\ ret'.op = "add_route"
           /\ ret'.ok
           /\ ret'.path = <<"/", "{", "x", ":", "i", "}">>) =>
              LET list == dynamic_db'[2][<<STAR>>]
              IN  list[Len(list)].params_values[1].validator = validators[<<"i">>]]_vars

\* The alias got another matcher after a route took the first, and a path
\* the two matchers disagree on was resolved to that route
C14_Witness ==
    /\ Resolved
    /\ ret.result.kind = "Some"
    /\ ret.result.params # <<>>
    /\ \E v \in carried_validators :
          /\ v # NoValidator
          /\ v # validators[<<"i">>]
          /\ is_match(v, ret.result.params[1][2])
          /\ ~is_match(validators[<<"i">>], ret.result.params[1][2])

(***************************************************************************)
(* C15: a dynamic segment without a validator takes non-empty text only.   *)
(* In either trailing-slash mode no (name, value) pair that resolve        *)
(* returns has an empty value: a path with an empty segment at the place   *)
(* of a dynamic segment does not match the route.                          *)
(***************************************************************************)
C15_NoEmptyValue ==
    (Resolved /\ ret.result.kind = "Some") =>
        \A j \in 1..Len(ret.result.params) : ret.result.params[j][2] # <<>>

(***************************************************************************)
(* C16: in the location tier the longest eligible prefix wins.  Among the  *)
(* entries whose prefix is a prefix of the path and that hold a handler of *)
(* the method, the tier returns a handler of the entry with the longest    *)
(* prefix, and it returns nothing only when there is no such entry.        *)
(***************************************************************************)
\* The entries whose prefix starts the path and that hold a handler of the
\* method
eligible(method, path) ==
    {i \in 1..Len(locations_db) :
        /\ starts_with(path, locations_db[i][1])
        /\ \E k \in 1..Len(locations_db[i][2]) : locations_db[i][2][k].method = method}

\* The location tier answers (method, path) from the longest eligible prefix
longest_prefix_wins(method, path) ==
    LET got == get_location_handler(method, path)
        among == eligible(method, path)
    IN  IF among = {}
        THEN got = None
        ELSE /\ got.kind = "Some"
             /\ got.params = <<>>
             /\ \E i \in among :
                   /\ \A j \in among : Len(locations_db[j][1]) <= Len(locations_db[i][1])
                   /\ \E k \in 1..Len(locations_db[i][2]) :
                         /\ locations_db[i][2][k].method = method
                         /\ locations_db[i][2][k].handler = got.handler

C16_LongestPrefixWins ==
    \A call \in ResolveCalls : longest_prefix_wins(call[1], call[2])

\* Three entries start the path resolved: the longest holds no handler of
\* the method, and of the other two the longer one answered
C16_Witness ==
    /\ Resolved
    /\ Len(locations_db) = 3
    /\ \A i \in 1..3 : starts_with(ret.path, locations_db[i][1])
    /\ eligible(ret.method, resolve_path(ret.path)) = {2, 3}
    /\ ret.result = get_location_handler(ret.method, resolve_path(ret.path))
    /\ ret.result.kind = "Some"
    /\ ret.result.handler = locations_db[2][2][1].handler

=============================================================================
